---- MODULE Spec2Model ----
(***************************************************************************)
(* The WebSocket message bridge of ServerBot (src/src/services/ws.ts):     *)
(* one connection, several messages in flight, each message a chain of     *)
(* synchronous segments separated by the awaits of the code.  An action is *)
(* one such segment: everything the event loop runs between two awaits.    *)
(* The store (prisma), the player registry (PlayerList), the pairing codes *)
(* (CodeStorage) and the responses written to the socket are the state.    *)
(***************************************************************************)
EXTENDS Integers, Sequences, FiniteSets, Bags, TLC

\* ------------------------------------------------------------------ bounds
\* Number of messages the connection delivers in one behaviour.
MaxMsgs == 2

Msgs == 1..MaxMsgs

\* ------------------------------------------------------------- JS values
\* A field that is absent from an object (JS undefined).
NoVal == "undefined"

\* An object with no own keys (what spreading undefined, or {}, contributes).
EmptyRec == [k \in {} |-> k]

\* JS truthiness of an optional string field: undefined, null and "" are falsy.
Truthy(v) == v # NoVal /\ v # ""

\* ------------------------------------------------------------------ inputs
SteamIds == {"S1", "S2"}
DiscordIds == {"D1", "D2"}

RegisteredTypes == {"getUser_steam", "linkCode_steam", "giveXP", "onJoin", "onLeave"}

\* Keys every object literal inherits from Object.prototype; "constructor"
\* stands for the inherited functions.
PrototypeKeys == {"constructor"}

Types == RegisteredTypes \cup PrototypeKeys \cup {"noSuchType"}

\* Payloads a client sends as content, by the type it sends them with: a
\* display name, a pairing code (K1 is pending for D1, K2 for D2, K9 was never
\* issued), "<profileId> <amount>" (no profile ever has id 9).
ContentsFor(type) ==
    CASE type = "linkCode_steam" -> {"K1", "K2", "K9"}
      [] type = "giveXP" -> {"1 10", "9 10"}
      [] OTHER -> {"Nova"}

\* A token is opaque to the bridge; what the validator makes of it is the
\* validator's choice.
\* The identities a client sends a type with; giveXP and unhandled types
\* never read the identity once it is authenticated.
SteamIdsFor(type) ==
    IF type \in {"giveXP", "noSuchType"} THEN {"S1"} ELSE SteamIds

Tokens == {"tok"}

Contents == UNION {ContentsFor(t) : t \in Types}

\* The correlation id a client gives request m (clients draw fresh ids).
CorrOf(m) == "c" \o ToString(m)

\* String.prototype.split(" ") on the payloads above.
Split(s) ==
    CASE s = "1 10" -> <<"1", "10">>
      [] s = "9 10" -> <<"9", "10">>
      [] OTHER -> <<s>>

\* Destructuring const [userId, xpAmount] = parts: a missing element is undefined.
Elem(parts, i) == IF i <= Len(parts) THEN parts[i] ELSE NoVal

\* Number(x) on the words above; NaN is modelled as -1.
NaN == -1
NumberOf(w) ==
    CASE w = "1" -> 1
      [] w = "9" -> 9
      [] w = "10" -> 10
      [] OTHER -> NaN

\* ------------------------------------------------------------- PlayerList
\* A JS Map: its entries in insertion order, one per key.
MapHas(map, k) == \E i \in DOMAIN map : map[i].key = k

\* The place of the first entry with key k (0 when there is none).
MapIndex(map, k) ==
    IF MapHas(map, k)
    THEN CHOOSE i \in DOMAIN map :
            /\ map[i].key = k
            /\ \A j \in DOMAIN map : map[j].key = k => i <= j
    ELSE 0

\* Map.prototype.get: the value, or undefined.  An optional value is a
\* sequence of at most one element, <<>> standing for undefined and for null.
MapGet(map, k) == IF MapHas(map, k) THEN <<map[MapIndex(map, k)].val>> ELSE <<>>

\* Map.prototype.set: an existing key keeps its place and takes the value; a
\* new key goes last.
MapSet(map, k, v) ==
    IF MapHas(map, k)
    THEN [map EXCEPT ![MapIndex(map, k)].val = v]
    ELSE Append(map, [key |-> k, val |-> v])

\* Map.prototype.delete: the entry goes, the others keep their order.
MapDelete(map, k) ==
    LET Keep(e) == e.key # k IN SelectSeq(map, Keep)

\* [...map.values()] and Array.from(map.values()).
MapValues(map) == [i \in DOMAIN map |-> map[i].val]

\* A JS boolean as the caller sees it ("undefined" is what a void method gives).
JsBool(b) == IF b THEN "true" ELSE "false"

\* String.prototype.toLowerCase on the display names of the model.
ToLower(name) ==
    CASE name \in {"Nova", "NOVA", "nova"} -> "nova"
      [] name \in {"Rex", "rex"} -> "rex"
      [] name \in {"Zed", "zed"} -> "zed"
      [] OTHER -> name

\* The source holds three declarations of the class PlayerList: two in
\* playerList.ts and one in an unnamed file.  ws.ts calls addPlayer, which
\* only the second declares.
FirstDecl == "playerList.ts:3"
SecondDecl == "playerList.ts:75"
UnnamedDecl == "part_000:3"
Declarations == {FirstDecl, SecondDecl, UnnamedDecl}

\* addPlayer keyed by the profile's id instead of the Steam id.
addPlayerByProfileId(pl, steamId, user) == MapSet(pl, ToString(user.id), user)

\* get(steamId), and get(steamId) || null: a stored profile is truthy.
getPlayerBySteamID(pl, steamId) == MapGet(pl, steamId)

\* addPlayer with an append in place of Map.set.
addPlayerAppend(pl, steamId, user) == Append(pl, [key |-> steamId, val |-> user])

addPlayer(pl, steamId, user) == MapSet(pl, steamId, user)

addPlayerBySteamID(pl, steamId, user) == MapSet(pl, steamId, user)

\* removePlayerBySteamID leaving the registry alone.
removePlayerBySteamIDNoop(pl, steamId) == pl

removePlayerBySteamID(pl, steamId) == MapDelete(pl, steamId)

\* What removePlayerBySteamID returns: nothing in the first declaration, the
\* result of Map.delete in the others.
removePlayerBySteamIDResult(decl, pl, steamId) ==
    IF decl = FirstDecl THEN NoVal ELSE JsBool(MapHas(pl, steamId))

getAllPlayers(pl) == MapValues(pl)

\* getPlayerList: the first declaration returns this.players itself, the
\* others a new Map with the same entries.
getPlayerList(decl, pl) ==
    IF decl = FirstDecl THEN [alias |-> TRUE, map |-> <<>>]
    ELSE [alias |-> FALSE, map |-> pl]

\* The place of the first entry, in scan order, whose username equals
\* `username` ignoring case (0 when there is none).
ScanUsername(pl, username) ==
    LET hits == {i \in DOMAIN pl : ToLower(pl[i].val.username) = ToLower(username)}
    IN  IF hits = {} THEN 0 ELSE CHOOSE i \in hits : \A j \in hits : i <= j

getPlayerByUsername(pl, username) ==
    IF ScanUsername(pl, username) = 0 THEN <<>> ELSE <<pl[ScanUsername(pl, username)].val>>

removePlayerByUsername(pl, username) ==
    IF ScanUsername(pl, username) = 0 THEN pl
    ELSE MapDelete(pl, pl[ScanUsername(pl, username)].key)

removePlayerByUsernameResult(decl, pl, username) ==
    IF decl = FirstDecl THEN NoVal ELSE JsBool(ScanUsername(pl, username) # 0)

\* The caller before its first call: nothing returned, no Map held.
NoCall ==
    [op |-> "none", arg |-> NoVal, ret |-> NoVal, got |-> <<>>,
     snap |-> [held |-> FALSE, alias |-> FALSE, map |-> <<>>]]

\* --------------------------------------------------------------- variables
VARIABLES
    users,      \* store: profile id -> [username, xp, level]
    accounts,   \* store: platform id -> owning profile id (unique per identity)
    nextId,     \* store: next autoincrement profile id
    players,    \* PlayerList.players: a Map from steam id to profile snapshot
    codes,      \* CodeStorage: pairing code -> discord id
    msgs,       \* per message: its fields, its position and its locals
    sent,       \* responses written to the connection: a bag of frames
    dms,        \* discord ids a confirmation DM was sent to
    linked,     \* history: <<message, code>> of every link answered success:true
    build,      \* which declaration of PlayerList the registry runs
    caller,     \* a direct caller of PlayerList: its last call and what it holds
    member,     \* profile command: the guild member whose boost is resolved
    info,       \* profile command: what getMultiplierInfo returned last
    clock,      \* daily command: the time, in half days since a midnight
    profiles,   \* daily command: the store's profiles, by profile id
    discordUser,\* daily command: the profile the Discord account resolves to
    runs,       \* daily command: the invocations of execute
    currentPage,\* profile command: the page counter of the view
    message,    \* profile command: the reply as Discord displays it
    collected,  \* profile command: the button interactions collected
    collector   \* profile command: whether the collector still listens

\* The state of the Discord commands (commands/profile.ts, commands/daily.ts).
boostvars == <<member, info>>

dailyvars == <<clock, profiles, discordUser, runs>>

viewvars == <<currentPage, message, collected, collector>>

cmdvars == <<boostvars, dailyvars, viewvars>>

vars == <<users, accounts, nextId, players, codes, msgs, sent, dms, linked, build, caller,
          cmdvars>>

\* A message slot nothing has been received in.  The fields from type to
\* correlationId are the message; discordId and result are the locals of
\* linkCode_steam; g* are the experience grant the giveXP handler started;
\* the rest records what happened to the message: rejected says whether it
\* failed parsing ("parse") or authentication ("auth"), faulted that a call
\* inside its handler threw, handler how far its handler got, found the
\* number of profiles findMany matched, merged that mergeUsers was called,
\* success what mergeUsers reported (a local while the handler runs),
\* invalidated that the handler called deleteCode, attempt the Discord id it
\* tried to notify, conflict that the store rejected its insert because the
\* identity already had an owner.
IdleMsg ==
    [pc |-> "idle", type |-> NoVal, steamId |-> NoVal, token |-> NoVal,
     content |-> NoVal, correlationId |-> NoVal,
     discordId |-> NoVal, result |-> <<>>, success |-> FALSE,
     grant |-> "none", gId |-> 0, gAmount |-> 0, gXp |-> 0, gLevel |-> 0,
     rejected |-> "no", faulted |-> FALSE, handler |-> "none",
     found |-> -1, merged |-> FALSE, invalidated |-> FALSE, attempt |-> NoVal,
     conflict |-> FALSE]

\* The pairing codes pending when the process starts serving.
PendingCodes == ("K1" :> "D1") @@ ("K2" :> "D2")

\* The store as the process finds it: S1 and D1 each own a profile, S2 may
\* or may not have registered yet, D2 never has.  K1 and K2 are pending codes.
WsInit(s2) ==
    /\ users = [i \in (IF s2 THEN 1..3 ELSE 1..2) |->
                    [username |-> "Nova", xp |-> 0, level |-> 1]]
    /\ accounts = IF s2 THEN ("S1" :> 1) @@ ("D1" :> 2) @@ ("S2" :> 3)
                        ELSE ("S1" :> 1) @@ ("D1" :> 2)
    /\ nextId = IF s2 THEN 4 ELSE 3
    /\ players = <<>>
    /\ codes = PendingCodes
    /\ msgs = [m \in Msgs |-> IdleMsg]
    /\ sent = EmptyBag
    /\ dms = {}
    /\ linked = {}

\* No command has been invoked.
NoInfo == [multiplier |-> 0, roles |-> <<>>]

BoostIdle ==
    /\ member = [present |-> FALSE, roles |-> <<>>]
    /\ info = NoInfo

\* Number of invocations of the daily command, and the last half day.
MaxRuns == 2

MaxClock == 4

Runs == 1..MaxRuns

\* A Date that is null.
NoTime == -1

\* A profile as the store creates it.
FreshProfile == [balance |-> 0, streak |-> 0, lastClaimedDaily |-> NoTime, xp |-> 0, level |-> 1]

\* The locals of an invocation that has not started.
IdleRun ==
    [pc |-> "idle", id |-> 0, now |-> NoTime, streakIncrement |-> 0,
     streakBroken |-> "undefined", replies |-> <<>>, updated |-> FALSE]

\* The store before any claim: the Discord account owns profile 1 when it is
\* registered, a Steam account of the same person owns profile 2.
DailyStart(registered, steam) ==
    /\ clock = 0
    /\ profiles = [p \in (IF registered THEN {1} ELSE {}) \cup (IF steam THEN {2} ELSE {})
                        |-> FreshProfile]
    /\ discordUser = IF registered THEN 1 ELSE 0
    /\ runs = [r \in Runs |-> IdleRun]

DailyIdle == DailyStart(TRUE, FALSE)

\* Number of button clicks on one profile view.
MaxClicks == 3

Clicks == 1..MaxClicks

\* A click that has not happened.
NoClick == [pc |-> "idle", by |-> "nobody", customId |-> "none", embed |-> 0, buttons |-> 0]

\* The profile view after interaction.reply: page 1 with the buttons of
\* page 1, the collector listening.
ViewIdle ==
    /\ currentPage = 1
    /\ message = [embed |-> 1, buttons |-> 1]
    /\ collected = [c \in Clicks |-> NoClick]
    /\ collector = "on"

CmdIdle == BoostIdle /\ DailyIdle /\ ViewIdle

\* ws.ts imports the declaration that has addPlayer.
Init ==
    /\ \E s2 \in BOOLEAN : WsInit(s2)
    /\ build = SecondDecl
    /\ caller = NoCall
    /\ CmdIdle

\* ------------------------------------------------------------------- store
\* JSON.stringify(user), as far as the model's profile goes.
UserJson(id) ==
    "{id:" \o ToString(id) \o ",username:" \o users[id].username
        \o ",xp:" \o ToString(users[id].xp) \o ",level:" \o ToString(users[id].level) \o "}"

\* The profile row as prisma returns it.
UserRow(id) ==
    [id |-> id, username |-> users[id].username, xp |-> users[id].xp,
     level |-> users[id].level]

\* The DISCORD account of a profile, as accounts.find(...)?.platformId gives it.
DiscordOf(id) ==
    LET ds == {d \in DOMAIN accounts : accounts[d] = id /\ d \in DiscordIds}
    IN  IF ds = {} THEN NoVal ELSE CHOOSE d \in ds : TRUE

\* prisma.user.findMany over the two identities: the profiles owning either.
Matched(steamId, discordId) ==
    {accounts[p] : p \in {q \in {steamId, discordId} : q \in DOMAIN accounts}}

\* The orders a set of rows can come back in (the query states no orderBy
\* for the profiles, so the order is the store's choice).
Orders(S) == {q \in UNION {[1..n -> S] : n \in {Cardinality(S)}} :
                \A i, j \in DOMAIN q : i # j => q[i] # q[j]}

\* ------------------------------------------------------------- progression
XpPerLevel == 10

\* Leveling.getXpForNextLevel: strictly increasing in the level.
getXpForNextLevel(level) == XpPerLevel * level

\* The level-up loop: while xp >= threshold, level up and subtract it.
RECURSIVE LevelUp(_, _)
LevelUp(xp, level) ==
    IF xp >= getXpForNextLevel(level)
    THEN LevelUp(xp - getXpForNextLevel(level), level + 1)
    ELSE [xp |-> xp, level |-> level]

\* mergeUsers(retained, donor): one transaction.  It fails, changing nothing,
\* unless both profiles exist and differ.
MergeOk(a, b) == a \in DOMAIN users /\ b \in DOMAIN users /\ a # b

MergedUsers(a, b) ==
    LET lv == LevelUp(users[a].xp + users[b].xp, 1)
    IN  [i \in DOMAIN users \ {b} |->
            IF i = a THEN [users[a] EXCEPT !.xp = lv.xp, !.level = lv.level]
            ELSE users[i]]

MergedAccounts(a, b) ==
    [p \in DOMAIN accounts |-> IF accounts[p] = b THEN a ELSE accounts[p]]

\* CodeStorage.getUser(code): the identity the code is pending for.
getUser(code) == IF code \in DOMAIN codes THEN codes[code] ELSE NoVal

\* CodeStorage.deleteCode(userId): the codes pending for that identity go.
deleteCode(userId) == [c \in {k \in DOMAIN codes : codes[k] # userId} |-> codes[c]]

\* ----------------------------------------------------------- ws.on("message")
\* The fields of a message that are present, as the object JSON.parse built.
DataRec(d) ==
    [k \in {f \in {"type", "steamId", "token", "content", "correlationId"} : d[f] # NoVal}
        |-> d[k]]

\* The response built from a `data` shared by the callbacks of the
\* connection instead of the callback's own: the last message received.
WithResponseShared(log, m, d, result) ==
    LET last == CHOOSE k \in Msgs : /\ msgs[k].pc # "idle"
                                    /\ \A j \in Msgs : j > k => msgs[j].pc = "idle"
    IN  IF Truthy(d.correlationId)
        THEN log (+) SetToBag({[of |-> m,
                                body |-> result @@ [type |-> d.type \o "_response",
                                                    correlationId |-> CorrOf(last)]]})
        ELSE log

\* ws.send of { type, correlationId, ...result }: the spread keys override.
WithResponse(log, m, d, result) ==
    IF Truthy(d.correlationId)
    THEN log (+) SetToBag({[of |-> m,
                            body |-> result @@ [type |-> d.type \o "_response",
                                                correlationId |-> d.correlationId]]})
    ELSE log

\* The else branch: an unhandled type is answered with type "error".
WithUnknown(log, m, d) ==
    IF Truthy(d.correlationId)
    THEN log (+) SetToBag({[of |-> m,
                            body |-> [type |-> "error",
                                      correlationId |-> d.correlationId,
                                      success |-> FALSE,
                                      error |-> "Unknown message type: " \o d.type]]})
    ELSE log

\* messageHandlers[data.type]: an own key, a key inherited from
\* Object.prototype, or undefined.
LookupHandler(type) ==
    IF type \in RegisteredTypes THEN "own"
    ELSE IF type \in PrototypeKeys THEN "inherited"
    ELSE "none"

\* What is left of a message once the callback has ended: its closure is
\* gone; the record of what happened to it stays.
Ended(d, pc) ==
    [IdleMsg EXCEPT !.pc = pc, !.correlationId = d.correlationId,
                    !.rejected = d.rejected, !.faulted = d.faulted,
                    !.handler = d.handler, !.found = d.found, !.merged = d.merged,
                    !.invalidated = d.invalidated, !.attempt = d.attempt,
                    !.conflict = d.conflict,
                    !.grant = d.grant, !.gId = d.gId, !.gAmount = d.gAmount]

\* The handler returned `result`: the response is written and the callback ends.
Returns(m, d, result) ==
    /\ sent' = WithResponse(sent, m, d, result)
    /\ msgs' = [msgs EXCEPT ![m] = Ended([d EXCEPT !.handler = "returned"], "done")]

\* An exception reached the catch of the callback: logged, nothing written.
Caught(m, d) ==
    /\ sent' = sent
    /\ msgs' = [msgs EXCEPT ![m] = Ended(d, "crashed")]

\* A message arrives.  JSON.parse, the content check and the identity/token
\* check run before the first await; a message that passes awaits authenticate.
\* The checks read neither the type nor, before they fail, the later fields,
\* so the fields are drawn in the order the checks read them.
Receive(m) ==
    /\ msgs[m].pc = "idle"
    /\ \A k \in Msgs : k < m => msgs[k].pc # "idle"
    /\ \E corr \in {NoVal, CorrOf(m)} :
        LET d == [IdleMsg EXCEPT !.correlationId = corr] IN
        \/ \* not JSON: JSON.parse throws, the catch logs it
           msgs' = [msgs EXCEPT ![m] = Ended([d EXCEPT !.rejected = "parse"], "dropped")]
        \/ \E content \in Contents \cup {NoVal, ""} :
            IF ~Truthy(content)
            THEN msgs' = [msgs EXCEPT ![m] = Ended([d EXCEPT !.rejected = "parse"], "dropped")]
            ELSE \E steamId \in SteamIds \cup {NoVal}, token \in Tokens \cup {NoVal} :
                IF Truthy(steamId) /\ Truthy(token)
                THEN \E type \in {t \in Types : /\ content \in ContentsFor(t)
                                                /\ steamId \in SteamIdsFor(t)} :
                        msgs' = [msgs EXCEPT ![m] =
                                    [d EXCEPT !.pc = "auth", !.type = type, !.steamId = steamId,
                                              !.token = token, !.content = content]]
                ELSE msgs' = [msgs EXCEPT ![m] = Ended([d EXCEPT !.rejected = "auth"], "dropped")]
    /\ UNCHANGED <<users, accounts, nextId, players, codes, sent, dms, linked, build, caller, cmdvars>>

\* What the validator call can end with: a 2xx answer, a non-2xx answer, or
\* a transport fault (fetch rejects).
ValidatorOutcomes == {"ok", "notok", "fault"}

\* authenticate() without the response.ok check: any answer counts.
authenticateAnyAnswer(outcome) ==
    CASE outcome = "fault" -> "throw"
      [] OTHER -> "state"

\* authenticate(): null unless response.ok; a fault propagates as an exception.
authenticate(outcome) ==
    CASE outcome = "ok" -> "state"
      [] outcome = "notok" -> "null"
      [] OTHER -> "throw"

\* The message after authenticate answered: the token is not used again.
Answered(d, o) == [d EXCEPT !.token = NoVal, !.rejected = IF o = "ok" THEN "no" ELSE "auth"]

\* authenticate answered null or threw: the message is dropped.
AuthFail(m) ==
    /\ msgs[m].pc = "auth"
    /\ \E o \in ValidatorOutcomes :
        /\ authenticate(o) # "state"
        /\ msgs' = [msgs EXCEPT ![m] = Ended(Answered(msgs[m], o), "dropped")]
    /\ UNCHANGED <<users, accounts, nextId, players, codes, sent, dms, linked, build, caller, cmdvars>>

\* The guard every continuation after a successful authenticate shares.
Authenticated(m, o, lookup) ==
    /\ msgs[m].pc = "auth"
    /\ authenticate(o) = "state"
    /\ LookupHandler(msgs[m].type) = lookup

\* No handler: the error response, when a correlation id is present.
DispatchUnknown(m) ==
    /\ \E o \in ValidatorOutcomes :
        /\ Authenticated(m, o, "none")
        /\ sent' = WithUnknown(sent, m, msgs[m])
        /\ msgs' = [msgs EXCEPT ![m] = Ended(Answered(msgs[m], o), "done")]
    /\ UNCHANGED <<users, accounts, nextId, players, codes, dms, linked, build, caller, cmdvars>>

\* An inherited key is truthy: Object(data) is called and returns data itself,
\* which is spread over the response.
DispatchInherited(m) ==
    /\ \E o \in ValidatorOutcomes :
        /\ Authenticated(m, o, "inherited")
        /\ Returns(m, Answered(msgs[m], o), DataRec(msgs[m]))
    /\ UNCHANGED <<users, accounts, nextId, players, codes, dms, linked, build, caller, cmdvars>>

\* getUser_steam, onJoin and onLeave await the store right after the field
\* check: between the answer of authenticate and the answer of the store the
\* message neither reads nor writes anything shared, so their first action is
\* the turn the store answers in.
StoreHandler(m, o, type) ==
    /\ Authenticated(m, o, "own")
    /\ msgs[m].type = type

\* Every handler's first check.  The callback has already required content
\* and steamId, so no message reaches a handler malformed.
Malformed(d) == ~Truthy(d.content) \/ ~Truthy(d.steamId)

MalformedResult == [success |-> FALSE, content |-> "Malformed content received."]

\* ------------------------------------------------------------ getUser_steam
\* findUnique answered: the existing profile is returned, or create is awaited.
GetUserFind(m) ==
    /\ \E o \in ValidatorOutcomes, fault \in BOOLEAN :
        LET d == Answered(msgs[m], o) IN
        /\ StoreHandler(m, o, "getUser_steam")
        /\ IF Malformed(d)
           THEN Returns(m, d, MalformedResult)
           ELSE IF fault
           THEN Returns(m, [d EXCEPT !.faulted = TRUE],
                        [success |-> FALSE, error |-> "Failed to get user: Error"])
           ELSE IF d.steamId \in DOMAIN accounts
           THEN Returns(m, d, [success |-> TRUE, content |-> UserJson(accounts[d.steamId])])
           ELSE /\ msgs' = [msgs EXCEPT ![m] = [d EXCEPT !.pc = "getUser_create",
                                                            !.handler = "running"]]
                /\ sent' = sent
    /\ UNCHANGED <<users, accounts, nextId, players, codes, dms, linked, build, caller, cmdvars>>

\* create answered: a new profile with xp 0 and level 1 owns the identity,
\* unless the store faulted or the identity got an owner in the meantime
\* (the unique key on platform and platformId rejects the insert).
GetUserCreate(m) ==
    LET d == msgs[m] IN
    /\ d.pc = "getUser_create"
    /\ \E fault \in BOOLEAN :
        IF fault
        THEN /\ Returns(m, [d EXCEPT !.faulted = TRUE],
                        [success |-> FALSE, error |-> "Failed to get user: Error"])
             /\ UNCHANGED <<users, accounts, nextId>>
        ELSE IF d.steamId \in DOMAIN accounts
        THEN /\ Returns(m, [d EXCEPT !.faulted = TRUE, !.conflict = TRUE],
                        [success |-> FALSE, error |-> "Failed to get user: Error"])
             /\ UNCHANGED <<users, accounts, nextId>>
        ELSE /\ users' = (nextId :> [username |-> d.content, xp |-> 0, level |-> 1]) @@ users
             /\ accounts' = (d.steamId :> nextId) @@ accounts
             /\ nextId' = nextId + 1
             /\ sent' = WithResponse(sent, m, d,
                            [success |-> TRUE,
                             content |-> "{id:" \o ToString(nextId) \o ",username:"
                                          \o d.content \o ",xp:0,level:1}"])
             /\ msgs' = [msgs EXCEPT ![m] = Ended([d EXCEPT !.handler = "returned"], "done")]
    /\ UNCHANGED <<players, codes, dms, linked, build, caller, cmdvars>>

\* ------------------------------------------------------------------ onJoin
\* findFirst answered: the profile goes into the registry and the handler
\* ends without a return value; no profile, or a fault, is answered success:false.
JoinFind(m) ==
    /\ \E o \in ValidatorOutcomes, fault \in BOOLEAN :
        LET d == Answered(msgs[m], o) IN
        /\ StoreHandler(m, o, "onJoin")
        /\ IF Malformed(d)
           THEN Returns(m, d, MalformedResult) /\ players' = players
           ELSE IF fault
           THEN /\ Returns(m, [d EXCEPT !.faulted = TRUE],
                           [success |-> FALSE,
                            content |-> "An error occurred while processing the join request."])
                /\ players' = players
           ELSE IF d.steamId \in DOMAIN accounts
           THEN /\ players' = addPlayer(players, d.steamId, UserRow(accounts[d.steamId]))
                /\ Returns(m, d, EmptyRec)
           ELSE /\ Returns(m, d, [success |-> FALSE, content |-> "No user profile found!"])
                /\ players' = players
    /\ UNCHANGED <<users, accounts, nextId, codes, dms, linked, build, caller, cmdvars>>

\* ----------------------------------------------------------------- onLeave
LeaveFind(m) ==
    /\ \E o \in ValidatorOutcomes, fault \in BOOLEAN :
        LET d == Answered(msgs[m], o) IN
        /\ StoreHandler(m, o, "onLeave")
        /\ IF Malformed(d)
           THEN Returns(m, d, MalformedResult) /\ players' = players
           ELSE IF fault
           THEN /\ Returns(m, [d EXCEPT !.faulted = TRUE],
                           [success |-> FALSE,
                            content |-> "An error occurred while processing the leave request."])
                /\ players' = players
           ELSE IF d.steamId \in DOMAIN accounts
           THEN /\ players' = removePlayerBySteamID(players, d.steamId)
                /\ Returns(m, d, [success |-> TRUE,
                                  content |-> "Player successfully removed from the list."])
           ELSE /\ Returns(m, d, [success |-> FALSE,
                                  content |-> "No user profile found to remove!"])
                /\ players' = players
    /\ UNCHANGED <<users, accounts, nextId, codes, dms, linked, build, caller, cmdvars>>

\* ------------------------------------------------------------------ giveXP
\* Leveling.giveXP is called without await: updatedUser is the pending
\* promise, never a profile and never null.
GiveXpValue == "promise"

\* The whole handler runs in the turn authenticate answered in: it starts the
\* grant and answers without waiting for it.
HandleGiveXP(m) ==
    /\ \E o \in ValidatorOutcomes :
        /\ Authenticated(m, o, "own")
        /\ msgs[m].type = "giveXP"
        /\ LET d == Answered(msgs[m], o)
               parts == Split(d.content)
               userId == Elem(parts, 1)
               xpAmount == Elem(parts, 2)
               g == [d EXCEPT !.grant = "read", !.gId = NumberOf(userId),
                              !.gAmount = NumberOf(xpAmount)]
           IN  IF Malformed(d)
               THEN Returns(m, d, MalformedResult)
               ELSE IF GiveXpValue = "null"
               THEN Returns(m, g, [success |-> FALSE,
                                   content |-> "Could not find user by ID " \o userId])
               ELSE Returns(m, g, [success |-> TRUE,
                                   content |-> "Gave " \o xpAmount \o " XP to user " \o userId])
    /\ UNCHANGED <<users, accounts, nextId, players, codes, dms, linked, build, caller, cmdvars>>

\* Leveling.giveXP, first half: the profile is read; absent ends the grant.
GrantRead(m) ==
    LET d == msgs[m] IN
    /\ d.grant = "read"
    /\ IF d.gId \in DOMAIN users /\ d.gAmount # NaN
       THEN msgs' = [msgs EXCEPT ![m].grant = "write", ![m].gXp = users[d.gId].xp,
                                 ![m].gLevel = users[d.gId].level]
       ELSE msgs' = [msgs EXCEPT ![m].grant = "absent"]
    /\ UNCHANGED <<users, accounts, nextId, players, codes, sent, dms, linked, build, caller, cmdvars>>

\* Leveling.giveXP, second half: experience and level computed from what was
\* read are written; the write fails when the profile is gone.
GrantWrite(m) ==
    LET d == msgs[m]
        lv == LevelUp(d.gXp + d.gAmount, d.gLevel)
    IN
    /\ d.grant = "write"
    /\ IF d.gId \in DOMAIN users
       THEN /\ users' = [users EXCEPT ![d.gId].xp = lv.xp, ![d.gId].level = lv.level]
            /\ msgs' = [msgs EXCEPT ![m].grant = "applied", ![m].gXp = 0, ![m].gLevel = 0]
       ELSE /\ users' = users
            /\ msgs' = [msgs EXCEPT ![m].grant = "failed", ![m].gXp = 0, ![m].gLevel = 0]
    /\ UNCHANGED <<accounts, nextId, players, codes, sent, dms, linked, build, caller, cmdvars>>

\* ---------------------------------------------------------- linkCode_steam
\* The code is resolved in the turn authenticate answered in; an unknown code
\* is answered at once, a known one awaits findMany.
StartLink(m) ==
    /\ \E o \in ValidatorOutcomes :
        /\ Authenticated(m, o, "own")
        /\ msgs[m].type = "linkCode_steam"
        /\ LET d == Answered(msgs[m], o)
               discordId == getUser(d.content)
           IN  IF Malformed(d)
               THEN Returns(m, d, MalformedResult)
               ELSE IF ~Truthy(discordId)
               THEN Returns(m, d, [success |-> FALSE, content |-> "Invalid code entered."])
               ELSE /\ msgs' = [msgs EXCEPT ![m] = [d EXCEPT !.pc = "link_find",
                                    !.handler = "running", !.discordId = discordId]]
                    /\ sent' = sent
    /\ UNCHANGED <<users, accounts, nextId, players, codes, dms, linked, build, caller, cmdvars>>

\* The check weakened to "some profile matched".
CardinalityNonEmpty(n) == n >= 1

\* result.length !== 2 is the only check between findMany and mergeUsers.
CardinalityOk(n) == n = 2

CardinalityResult(n) ==
    [success |-> FALSE,
     content |-> "Cannot merge when there are more or less than 2 users in the database. Found "
                    \o ToString(n) \o " user(s)."]

\* findMany answered: a fault leaves the handler as an exception (the handler
\* has no try); a count other than 2 is answered; otherwise result[0] and
\* result[1] are taken as the Steam and the Discord profile and mergeUsers is
\* awaited.
LinkFind(m) ==
    LET d == msgs[m] IN
    /\ d.pc = "link_find"
    /\ \E fault \in BOOLEAN, q \in Orders(Matched(d.steamId, d.discordId)) :
        IF fault
        THEN Caught(m, [d EXCEPT !.faulted = TRUE])
        ELSE LET f == [d EXCEPT !.found = Len(q)] IN
             IF ~CardinalityOk(Len(q))
             THEN Returns(m, f, CardinalityResult(Len(q)))
             ELSE IF Len(q) < 2
             THEN \* result[1] is undefined: reading its id throws
                  Caught(m, [f EXCEPT !.faulted = TRUE])
             ELSE /\ msgs' = [msgs EXCEPT ![m] = [f EXCEPT !.pc = "link_merge",
                                !.result = [i \in 1..2 |->
                                    [id |-> q[i], discord |-> DiscordOf(q[i])]]]]
                  /\ sent' = sent
    /\ UNCHANGED <<users, accounts, nextId, players, codes, dms, linked, build, caller, cmdvars>>

\* if (response.success) taken whatever mergeUsers reported.
MergeSucceededAlways(response) == TRUE

\* if (response.success): the code is deleted and the DM attempted only then.
MergeSucceeded(response) == response.success

\* mergeUsers answered: it merged, or it reports failure (the two profiles no
\* longer both exist, or its transaction failed) having changed nothing.  On
\* success the code is deleted and, when the second row has a Discord
\* account, the fetch of that user is awaited.
LinkMerge(m) ==
    LET a == msgs[m].result[1].id
        b == msgs[m].result[2].id
        discordUserId == msgs[m].result[2].discord
    IN
    /\ msgs[m].pc = "link_merge"
    /\ \E fault \in BOOLEAN :
        LET response == IF ~fault /\ MergeOk(a, b)
                        THEN [success |-> TRUE, message |-> "Accounts merged."]
                        ELSE [success |-> FALSE, message |-> "Merge failed."]
            d == [msgs[m] EXCEPT !.merged = TRUE, !.success = response.success]
            answer == [success |-> response.success, content |-> response.message]
        IN
        /\ IF response.success
           THEN users' = MergedUsers(a, b) /\ accounts' = MergedAccounts(a, b)
           ELSE users' = users /\ accounts' = accounts
        /\ linked' = IF response.success /\ ~(MergeSucceeded(response) /\ Truthy(discordUserId))
                      THEN linked \cup {<<m, d.content>>} ELSE linked
        /\ IF MergeSucceeded(response)
           THEN /\ codes' = deleteCode(d.discordId)
                /\ IF Truthy(discordUserId)
                   THEN /\ msgs' = [msgs EXCEPT ![m] =
                                        [d EXCEPT !.pc = "link_notify", !.invalidated = TRUE,
                                                  !.attempt = discordUserId]]
                        /\ sent' = sent
                   ELSE Returns(m, [d EXCEPT !.invalidated = TRUE], answer)
           ELSE /\ codes' = codes
                /\ Returns(m, d, answer)
    /\ UNCHANGED <<nextId, players, dms, build, caller, cmdvars>>

\* client.users.fetch answered: the DM is sent, or the failure is logged;
\* either way the handler returns what mergeUsers reported.
LinkNotify(m) ==
    LET d == msgs[m] IN
    /\ d.pc = "link_notify"
    /\ \E fetched \in BOOLEAN :
        dms' = IF fetched THEN dms \cup {d.attempt} ELSE dms
    /\ Returns(m, d, [success |-> d.success,
                      content |-> IF d.success THEN "Accounts merged." ELSE "Merge failed."])
    /\ linked' = IF d.success THEN linked \cup {<<m, d.content>>} ELSE linked
    /\ UNCHANGED <<users, accounts, nextId, players, codes, build, caller, cmdvars>>

\* ---------------------------------------------------------------- behaviour
Next ==
    \E m \in Msgs :
        \/ Receive(m)
        \/ AuthFail(m)
        \/ DispatchUnknown(m)
        \/ DispatchInherited(m)
        \/ GetUserFind(m)
        \/ GetUserCreate(m)
        \/ JoinFind(m)
        \/ LeaveFind(m)
        \/ HandleGiveXP(m)
        \/ GrantRead(m)
        \/ GrantWrite(m)
        \/ StartLink(m)
        \/ LinkFind(m)
        \/ LinkMerge(m)
        \/ LinkNotify(m)

Spec == Init /\ [][Next]_vars

\* ------------------------------------------------- PlayerList on its own
\* The registry called directly, one call per step, under each declaration
\* of the class the source holds.
RegKeys == SteamIds

\* Profiles a caller stores: two whose names differ in case only, and a third.
RegUsers ==
    {[id |-> 1, username |-> "Nova", xp |-> 0, level |-> 1],
     [id |-> 2, username |-> "NOVA", xp |-> 0, level |-> 1],
     [id |-> 3, username |-> "Rex", xp |-> 0, level |-> 1]}

\* Names a caller looks up; nobody is called Zed.
RegNames == {"nova", "Rex", "Zed"}

RegInit ==
    /\ WsInit(FALSE)
    /\ build \in Declarations
    /\ caller = NoCall
    /\ CmdIdle

\* The bridge does not run while the registry is called directly.
RegFrame ==
    UNCHANGED <<users, accounts, nextId, codes, msgs, sent, dms, linked, build, cmdvars>>

\* The call the caller made last: what it called, with what, what came back.
Called(op, arg, ret, got) ==
    [caller EXCEPT !.op = op, !.arg = arg, !.ret = ret, !.got = got]

RegGet(k) ==
    /\ caller' = Called("get", k, NoVal, getPlayerBySteamID(players, k))
    /\ players' = players
    /\ RegFrame

RegPut(k, u) ==
    /\ players' = IF build = SecondDecl THEN addPlayer(players, k, u)
                   ELSE addPlayerBySteamID(players, k, u)
    /\ caller' = Called("put", k, NoVal, <<u>>)
    /\ RegFrame

RegRemove(k) ==
    /\ players' = removePlayerBySteamID(players, k)
    /\ caller' = Called("remove", k, removePlayerBySteamIDResult(build, players, k), <<>>)
    /\ RegFrame

RegAll ==
    /\ caller' = Called("all", NoVal, NoVal, getAllPlayers(players))
    /\ players' = players
    /\ RegFrame

RegGetByName(n) ==
    /\ caller' = Called("getByName", n, NoVal, getPlayerByUsername(players, n))
    /\ players' = players
    /\ RegFrame

RegRemoveByName(n) ==
    /\ players' = removePlayerByUsername(players, n)
    /\ caller' = Called("removeByName", n,
                        removePlayerByUsernameResult(build, players, n), <<>>)
    /\ RegFrame

\* The caller keeps the Map getPlayerList returned.
RegSnapshot ==
    /\ caller' = [Called("snapshot", NoVal, NoVal, <<>>) EXCEPT
                    !.snap = [held |-> TRUE] @@ getPlayerList(build, players)]
    /\ players' = players
    /\ RegFrame

\* The caller sets or deletes a key of the Map it keeps: when that Map is
\* this.players itself, the registry is what changes.
RegMutate(k, u, del) ==
    /\ caller.snap.held
    /\ LET Changed(map) == IF del THEN MapDelete(map, k) ELSE MapSet(map, k, u)
           c == Called("mutate", k, NoVal, IF del THEN <<>> ELSE <<u>>)
       IN  IF caller.snap.alias
           THEN /\ players' = Changed(players)
                /\ caller' = c
           ELSE /\ players' = players
                /\ caller' = [c EXCEPT !.snap.map = Changed(caller.snap.map)]
    /\ RegFrame

RegNext ==
    \/ \E k \in RegKeys : RegGet(k)
    \/ \E k \in RegKeys, u \in RegUsers : RegPut(k, u)
    \/ \E k \in RegKeys : RegRemove(k)
    \/ RegAll
    \/ \E n \in RegNames : RegGetByName(n)
    \/ \E n \in RegNames : RegRemoveByName(n)
    \/ RegSnapshot
    \/ \E k \in RegKeys, u \in RegUsers, del \in BOOLEAN : RegMutate(k, u, del)

RegSpec == RegInit /\ [][RegNext]_vars

\* ------------------------------------------------ profile: XP boost display
\* Number of roles a member holds at most.
MaxRoles == 3

\* The roles of the guild.
RoleIds == {"R1", "R2", "R3", "R4", "R5", "R6"}

\* Leveling.roleMultipliers, factors in percent (1.10 is 110): R1 and R2
\* boost, R5 boosts as much as R2, R3 is configured with factor 1, R6 with a
\* factor below 1, R4 is not configured.
roleMultipliers == ("R1" :> 110) @@ ("R2" :> 125) @@ ("R3" :> 100) @@ ("R5" :> 125) @@ ("R6" :> 50)

\* Map.get(role.id): the factor, or undefined (0 here, falsy like undefined).
MultiplierOf(id) == IF id \in DOMAIN roleMultipliers THEN roleMultipliers[id] ELSE 0

\* role.name
RoleName(id) == "role-" \o id

Max(a, b) == IF a >= b THEN a ELSE b

\* roles.sort((a, b) => b.multiplier - a.multiplier): Array.prototype.sort is
\* stable, so roles with equal factors keep the order they were pushed in.
RECURSIVE InsertDescending(_, _)
InsertDescending(sorted, r) ==
    IF sorted = <<>> THEN <<r>>
    ELSE IF r.multiplier > sorted[Len(sorted)].multiplier
    THEN Append(InsertDescending(SubSeq(sorted, 1, Len(sorted) - 1), r), sorted[Len(sorted)])
    ELSE Append(sorted, r)

RECURSIVE SortDescending(_)
SortDescending(roles) ==
    IF roles = <<>> THEN <<>>
    ELSE InsertDescending(SortDescending(SubSeq(roles, 1, Len(roles) - 1)), roles[Len(roles)])

\* member.roles.cache.forEach: the boosting roles in cache order and the
\* highest factor seen.
RECURSIVE ScanRoles(_, _)
ScanRoles(cache, acc) ==
    IF cache = <<>> THEN acc
    ELSE LET multiplier == MultiplierOf(Head(cache)) IN
         ScanRoles(Tail(cache),
                   IF multiplier # 0 /\ multiplier > 100
                   THEN [roles |-> Append(acc.roles, [name |-> RoleName(Head(cache)),
                                                      multiplier |-> multiplier]),
                         highestMultiplier |-> Max(acc.highestMultiplier, multiplier)]
                   ELSE acc)

\* getMultiplierInfo with the factors added up instead of the highest kept.
RECURSIVE SumBoosts(_)
SumBoosts(roles) ==
    IF roles = <<>> THEN 100 ELSE SumBoosts(Tail(roles)) + (Head(roles).multiplier - 100)

getMultiplierInfoSummed(m) ==
    IF ~m.present THEN [multiplier |-> 100, roles |-> <<>>]
    ELSE LET scan == ScanRoles(m.roles, [roles |-> <<>>, highestMultiplier |-> 100])
         IN  [multiplier |-> SumBoosts(scan.roles), roles |-> SortDescending(scan.roles)]

getMultiplierInfo(m) ==
    IF ~m.present THEN [multiplier |-> 100, roles |-> <<>>]
    ELSE LET scan == ScanRoles(m.roles, [roles |-> <<>>, highestMultiplier |-> 100])
         IN  [multiplier |-> scan.highestMultiplier, roles |-> SortDescending(scan.roles)]

\* The commands' state that the boost display does not touch.
BoostFrame ==
    UNCHANGED <<users, accounts, nextId, players, codes, msgs, sent, dms, linked, build, caller,
                dailyvars, viewvars>>

BoostInit ==
    /\ WsInit(FALSE) /\ build = SecondDecl /\ caller = NoCall
    /\ member \in {[present |-> FALSE, roles |-> <<>>], [present |-> TRUE, roles |-> <<>>]}
    /\ info = NoInfo
    /\ DailyIdle
    /\ ViewIdle

\* The guild gives the member one more role.
RoleGranted(id) ==
    /\ member.present
    /\ Len(member.roles) < MaxRoles
    /\ \A i \in DOMAIN member.roles : member.roles[i] # id
    /\ member' = [member EXCEPT !.roles = Append(@, id)]
    /\ info' = info
    /\ BoostFrame

\* The first page of the profile is rendered.
ResolveMultiplier ==
    /\ info' = getMultiplierInfo(member)
    /\ member' = member
    /\ BoostFrame

BoostNext ==
    \/ \E id \in RoleIds : RoleGranted(id)
    \/ ResolveMultiplier

BoostSpec == BoostInit /\ [][BoostNext]_vars

\* ------------------------------------------------------------ daily command
\* Times are counted in half days: 24 * 60 * 60 * 1000 ms is two of them.
DayLength == 2

dailyMoney == 5

dailyXP == 10

\* setHours(0, 0, 0, 0): the midnight that starts the day of t.
Midnight(t) == t - (t % DayLength)

\* The state that the daily command does not touch.
DailyFrame ==
    UNCHANGED <<users, accounts, nextId, players, codes, msgs, sent, dms, linked, build, caller,
                boostvars, viewvars>>

DailyInit ==
    /\ WsInit(FALSE) /\ build = SecondDecl /\ caller = NoCall
    /\ BoostIdle
    /\ ViewIdle
    /\ \E registered, steam \in BOOLEAN : DailyStart(registered, steam)

\* The user invokes /daily: execute starts and awaits account.findUnique.
DailyInvoke(r) ==
    /\ runs[r].pc = "idle"
    /\ \A k \in Runs : k < r => runs[k].pc # "idle"
    /\ runs' = [runs EXCEPT ![r].pc = "find"]
    /\ UNCHANGED <<clock, profiles, discordUser>>
    /\ DailyFrame

\* lastClaimed && now - lastClaimed < 24 h
TooEarly(lastClaimed, now) == lastClaimed # NoTime /\ now - lastClaimed < DayLength

\* findUnique answered.  No account: "User not found".  Otherwise `now` is
\* taken, the 24-hour check is made on the profile as it was read, the streak
\* is computed from it, and prisma.user.update is awaited.
DailyFound(r) ==
    /\ runs[r].pc = "find"
    /\ IF discordUser \notin DOMAIN profiles
       THEN runs' = [runs EXCEPT ![r].pc = "done", ![r].replies = <<"User not found">>]
       ELSE LET user == profiles[discordUser]
                now == clock
                lastClaimed == user.lastClaimedDaily
            IN  IF TooEarly(lastClaimed, now)
                THEN runs' = [runs EXCEPT ![r].pc = "done", ![r].id = discordUser,
                                          ![r].now = now,
                                          ![r].replies = <<"You can claim your next daily reward in">>]
                ELSE LET broken == lastClaimed # NoTime
                                     /\ Midnight(clock) - Midnight(lastClaimed) > DayLength
                     IN  runs' = [runs EXCEPT
                            ![r].pc = "update", ![r].id = discordUser, ![r].now = now,
                            ![r].streakIncrement =
                                IF lastClaimed = NoTime \/ broken THEN 1 ELSE user.streak + 1,
                            ![r].streakBroken =
                                IF lastClaimed = NoTime THEN "undefined" ELSE JsBool(broken)]
    /\ UNCHANGED <<clock, profiles, discordUser>>
    /\ DailyFrame

\* prisma.user.update({ where: { id } }) runs: the balance is incremented in
\* the store, streak and lastClaimedDaily are set to the values computed
\* from the read; Leveling.giveXP is awaited next.  A profile that is gone
\* makes update throw: execute rejects and nothing is replied.
DailyUpdate(r) ==
    /\ runs[r].pc = "update"
    /\ IF runs[r].id \in DOMAIN profiles
       THEN /\ profiles' = [profiles EXCEPT
                    ![runs[r].id].balance = @ + dailyMoney,
                    ![runs[r].id].streak = runs[r].streakIncrement,
                    ![runs[r].id].lastClaimedDaily = runs[r].now]
            /\ runs' = [runs EXCEPT ![r].pc = "xp", ![r].updated = TRUE]
       ELSE /\ profiles' = profiles
            /\ runs' = [runs EXCEPT ![r].pc = "crashed"]
    /\ UNCHANGED <<clock, discordUser>>
    /\ DailyFrame

\* Leveling.giveXP(user.id, dailyXP) answered: absent when the profile does
\* not exist, else the experience is added and levelled up.  Absent is
\* replied with the XP error; otherwise the reward embed, followed by the
\* streak-reset embed when streakBroken is true.
DailyGiveXP(r) ==
    /\ runs[r].pc = "xp"
    /\ IF runs[r].id \in DOMAIN profiles
       THEN LET lv == LevelUp(profiles[runs[r].id].xp + dailyXP, profiles[runs[r].id].level)
            IN  /\ profiles' = [profiles EXCEPT ![runs[r].id].xp = lv.xp,
                                                ![runs[r].id].level = lv.level]
                /\ runs' = [runs EXCEPT
                        ![r].pc = "done",
                        ![r].replies = IF runs[r].streakBroken = "true"
                                       THEN <<"Daily Allowance", "Streak Reset">>
                                       ELSE <<"Daily Allowance">>]
       ELSE /\ profiles' = profiles
            /\ runs' = [runs EXCEPT
                    ![r].pc = "done",
                    ![r].replies = <<"An error occurred while gaining your daily XP">>]
    /\ UNCHANGED <<clock, discordUser>>
    /\ DailyFrame

\* Half a day passes.
Tick ==
    /\ clock < MaxClock
    /\ clock' = clock + 1
    /\ UNCHANGED <<profiles, discordUser, runs>>
    /\ DailyFrame

\* The person links the two accounts (the link handler of the bridge): the
\* Discord profile is merged into the Steam profile in one transaction.
\* Balances and experience are summed, the level is recomputed, the streak
\* is the higher one, the last claim the later one; the Discord account is
\* reassigned and the donor profile deleted.
AccountsLinked ==
    /\ discordUser = 1
    /\ {1, 2} \subseteq DOMAIN profiles
    /\ LET lv == LevelUp(profiles[1].xp + profiles[2].xp, 1) IN
        profiles' = [p \in {2} |->
            [balance |-> profiles[1].balance + profiles[2].balance,
             streak |-> Max(profiles[1].streak, profiles[2].streak),
             lastClaimedDaily |-> Max(profiles[1].lastClaimedDaily, profiles[2].lastClaimedDaily),
             xp |-> lv.xp, level |-> lv.level]]
    /\ discordUser' = 2
    /\ UNCHANGED <<clock, runs>>
    /\ DailyFrame

DailyNext ==
    \/ \E r \in Runs : DailyInvoke(r)
    \/ \E r \in Runs : DailyFound(r)
    \/ \E r \in Runs : DailyUpdate(r)
    \/ \E r \in Runs : DailyGiveXP(r)
    \/ Tick
    \/ AccountsLinked

DailySpec == DailyInit /\ [][DailyNext]_vars

\* ------------------------------------------------- profile: paginated view
\* pages.length
NumPages == 2

\* generateButtons(page): which of the two buttons are enabled.
generateButtons(page) ==
    [prev_page |-> page # 1, next_page |-> page # NumPages]

\* The state that the profile view does not touch.
ViewFrame ==
    UNCHANGED <<users, accounts, nextId, players, codes, msgs, sent, dms, linked, build, caller,
                boostvars, dailyvars>>

ViewInit ==
    /\ WsInit(FALSE) /\ build = SecondDecl /\ caller = NoCall
    /\ BoostIdle
    /\ DailyIdle
    /\ ViewIdle

\* if (customId === "prev_page") currentPage--; if (... "next_page") currentPage++
TurnPage(page, customId) ==
    CASE customId = "prev_page" -> page - 1
      [] customId = "next_page" -> page + 1
      [] OTHER -> page

\* The invoker clicks a button that the displayed message has enabled and
\* the collector collects it: the counter moves and pages[currentPage - 1]
\* is called.  Outside the pages that is undefined and the call throws: the
\* handler ends there.  Page 1 is built at once; page 2 awaits the store.
CollectOwn(c, customId) ==
    /\ collector = "on"
    /\ collected[c].pc = "idle"
    /\ \A k \in Clicks : k < c => collected[k].pc # "idle"
    /\ generateButtons(message.buttons)[customId]
    /\ currentPage' = TurnPage(currentPage, customId)
    /\ collected' = [collected EXCEPT ![c] =
            [pc |-> IF currentPage' \notin 1..NumPages THEN "crashed"
                    ELSE IF currentPage' = 1 THEN "sending" ELSE "render",
             by |-> "invoker", customId |-> customId,
             embed |-> IF currentPage' \in 1..NumPages THEN currentPage' ELSE 0,
             buttons |-> IF currentPage' = 1 THEN 1 ELSE 0]]
    /\ UNCHANGED <<message, collector>>
    /\ ViewFrame

\* Another user clicks: they are told off and the handler returns.
CollectOther(c, customId) ==
    /\ collector = "on"
    /\ collected[c].pc = "idle"
    /\ \A k \in Clicks : k < c => collected[k].pc # "idle"
    /\ generateButtons(message.buttons)[customId]
    /\ collected' = [collected EXCEPT ![c] =
            [NoClick EXCEPT !.pc = "done", !.by = "other", !.customId = customId]]
    /\ UNCHANGED <<currentPage, message, collector>>
    /\ ViewFrame

\* The page function answered: the buttons are generated for the counter as
\* it is now, and i.update is sent.
Rendered(c) ==
    /\ collected[c].pc = "render"
    /\ collected' = [collected EXCEPT ![c].pc = "sending", ![c].buttons = currentPage]
    /\ UNCHANGED <<currentPage, message, collector>>
    /\ ViewFrame

\* Discord applies the update: the message shows the embed and the buttons.
Updated(c) ==
    /\ collected[c].pc = "sending"
    /\ message' = [embed |-> collected[c].embed, buttons |-> collected[c].buttons]
    /\ collected' = [collected EXCEPT ![c].pc = "done"]
    /\ UNCHANGED <<currentPage, collector>>
    /\ ViewFrame

\* The collector's 60 seconds are over.
CollectorEnds ==
    /\ collector = "on"
    /\ collector' = "ended"
    /\ UNCHANGED <<currentPage, message, collected>>
    /\ ViewFrame

ViewNext ==
    \/ \E c \in Clicks, customId \in {"prev_page", "next_page"} : CollectOwn(c, customId)
    \/ \E c \in Clicks, customId \in {"prev_page", "next_page"} : CollectOther(c, customId)
    \/ \E c \in Clicks : Rendered(c)
    \/ \E c \in Clicks : Updated(c)
    \/ CollectorEnds

ViewSpec == ViewInit /\ [][ViewNext]_vars

\* ------------------------------------------------------------------ claims
Final == {"done", "dropped", "crashed"}

InFlight(m) == msgs[m].pc \notin Final \cup {"idle"}

\* The frames written for message m, and how many they are.
ResponsesOf(m) == {e \in BagToSet(sent) : e.of = m}

RECURSIVE SumCopies(_)
SumCopies(S) ==
    IF S = {} THEN 0
    ELSE LET e == CHOOSE x \in S : TRUE IN CopiesIn(e, sent) + SumCopies(S \ {e})

NResponses(m) == SumCopies(ResponsesOf(m))

ResponseTypes == {t \o "_response" : t \in RegisteredTypes}

\* C1: a message that fails parsing or authentication is dropped silently:
\* no handler runs for it, nothing is ever written for it, and the step that
\* rejects it changes neither the store, the registry, the pairing codes, the
\* responses nor the notifications, whatever else is in flight or was answered.
C1_RejectedDroppedSilently ==
    /\ [](\A m \in Msgs : msgs[m].rejected # "no" =>
            /\ msgs[m].pc = "dropped"
            /\ msgs[m].handler = "none"
            /\ msgs[m].grant = "none"
            /\ ResponsesOf(m) = {})
    /\ [][\A m \in Msgs : (msgs[m].rejected = "no" /\ msgs'[m].rejected # "no") =>
            UNCHANGED <<users, accounts, nextId, players, codes, sent, dms, linked>>]_vars

\* C1 witness: a message with a correlation id was rejected by the validator
\* after an earlier message of the connection was authenticated and answered.
C1_Witness ==
    /\ msgs[1].pc = "done" /\ msgs[1].handler = "returned" /\ NResponses(1) = 1
    /\ msgs[2].pc = "dropped" /\ msgs[2].rejected = "auth"
    /\ Truthy(msgs[2].correlationId)

\* C2: a message with a correlation id whose handler hit a fault has been
\* answered with success:false once its callback has ended.
C2_FaultAnswered ==
    \A m \in Msgs :
        (msgs[m].faulted /\ msgs[m].pc \in Final /\ Truthy(msgs[m].correlationId)) =>
            \E e \in ResponsesOf(m) :
                "success" \in DOMAIN e.body /\ e.body.success = FALSE

\* C3: the step that dispatches an authenticated message whose type is not a
\* registered type writes exactly the "Unknown message type" error response
\* when the message has a correlation id, and nothing otherwise.
C3_UnknownTypeAnswered ==
    [][\A m \in Msgs :
        (/\ msgs[m].pc = "auth"
         /\ msgs'[m].pc \in {"done", "crashed"}
         /\ msgs[m].type \notin RegisteredTypes) =>
            sent' = IF Truthy(msgs[m].correlationId)
                    THEN sent (+) SetToBag({[of |-> m,
                            body |-> [type |-> "error",
                                      correlationId |-> msgs[m].correlationId,
                                      success |-> FALSE,
                                      error |-> "Unknown message type: " \o msgs[m].type]]})
                    ELSE sent]_vars

\* The step in which the registered handler of message m returns.
HandlerReturns(m) ==
    /\ msgs[m].type \in RegisteredTypes
    /\ msgs[m].handler # "returned"
    /\ msgs'[m].handler = "returned"

\* C4: the step in which the registered handler of a message returns writes
\* exactly one response, of type "<type>_response" and with the message's
\* correlation id, when the message has one, and nothing otherwise; no message
\* is ever answered twice, and every response carries the correlation id of
\* the message it answers, whatever else is in flight.
C4_OneCorrelatedResponse ==
    /\ [](\A m \in Msgs :
            /\ NResponses(m) <= 1
            /\ \A e \in ResponsesOf(m) :
                /\ msgs[m].pc = "done"
                /\ e.body.correlationId = msgs[m].correlationId
                /\ e.body.correlationId = CorrOf(m))
    /\ [][\A m \in Msgs : HandlerReturns(m) =>
            IF Truthy(msgs[m].correlationId)
            THEN \E e \in BagToSet(sent') :
                    /\ sent' = sent (+) SetToBag({e})
                    /\ e.of = m
                    /\ e.body.type = msgs[m].type \o "_response"
                    /\ e.body.correlationId = msgs[m].correlationId
            ELSE sent' = sent]_vars

\* C4 witness: the second message has been answered while the first, received
\* before it, is still being handled.
C4_Witness ==
    /\ InFlight(1) /\ msgs[1].handler = "running" /\ Truthy(msgs[1].correlationId)
    /\ msgs[2].pc = "done" /\ msgs[2].handler = "returned" /\ NResponses(2) = 1

\* C5: every response to a message of a registered type carries a boolean
\* success flag.
C5_SuccessFlag ==
    \A e \in BagToSet(sent) :
        e.body.type \in ResponseTypes =>
            "success" \in DOMAIN e.body /\ e.body.success \in BOOLEAN

\* C6: a grant-experience message naming a profile id the store has never
\* held is answered success:false.
C6_UnknownProfileRefused ==
    \A m \in Msgs : \A e \in ResponsesOf(m) :
        (e.body.type = "giveXP_response" /\ msgs[m].gId >= nextId) =>
            "success" \in DOMAIN e.body /\ e.body.success = FALSE

Quiet == \A k \in Msgs : ~InFlight(k) /\ msgs[k].grant \notin {"read", "write"}

\* C7: once a grant-experience message has succeeded and its grant is applied
\* (nothing else being in flight), every registry entry of the profile holds
\* the experience and level the store holds.
C7_RegistryFollowsGrant ==
    \A m \in Msgs :
        (Quiet /\ msgs[m].grant = "applied" /\ msgs[m].gId \in DOMAIN users) =>
            \A i \in DOMAIN players :
                players[i].val.id = msgs[m].gId =>
                    /\ players[i].val.xp = users[msgs[m].gId].xp
                    /\ players[i].val.level = users[msgs[m].gId].level

\* The profiles a message is between its store read and its store write on.
Mutating(m) ==
    (IF msgs[m].grant = "write" THEN {msgs[m].gId} ELSE {})
        \cup (IF msgs[m].pc = "link_merge"
              THEN {msgs[m].result[1].id, msgs[m].result[2].id} ELSE {})

\* C8: no two messages are between their store read and their store write on
\* the same profile at the same time.
C8_SerializedPerProfile ==
    \A m1, m2 \in Msgs : m1 # m2 => Mutating(m1) \cap Mutating(m2) = {}

\* C9: at most one link message per pairing code is answered success:true, and
\* a code that has authorized a merge no longer resolves.
C9_CodeConsumedOnce ==
    /\ \A x, y \in linked : x[2] = y[2] => x = y
    /\ \A x \in linked : getUser(x[2]) = NoVal

\* C10: a link message whose two identities matched a number of profiles other
\* than 2 ends answered success:false with that number, mergeUsers is not
\* called for it, and the step that finds the number leaves the store unchanged.
C10_CardinalityRefused ==
    /\ [](\A m \in Msgs : msgs[m].found \notin {-1, 2} =>
            /\ msgs[m].pc = "done"
            /\ ~msgs[m].merged
            /\ Truthy(msgs[m].correlationId) =>
                /\ NResponses(m) = 1
                /\ \A e \in ResponsesOf(m) :
                    e.body = [type |-> "linkCode_steam_response",
                              correlationId |-> msgs[m].correlationId]
                                @@ CardinalityResult(msgs[m].found))
    /\ [][\A m \in Msgs : (msgs[m].found = -1 /\ msgs'[m].found \notin {-1, 2}) =>
            UNCHANGED <<users, accounts, nextId, codes, players, dms>>]_vars

\* C10 witness: link messages that matched no profile and one profile have
\* both been answered.
C10_Witness ==
    /\ msgs[1].found = 0 /\ NResponses(1) = 1
    /\ msgs[2].found = 1 /\ NResponses(2) = 1

\* The link message m has been answered success:false.
LinkRefused(m) ==
    \E e \in ResponsesOf(m) :
        e.body.type = "linkCode_steam_response" /\ e.body.success = FALSE

\* C11: a link message answered success:false has invalidated no pairing code
\* and attempted no notification; no step of a link message changes the
\* registry, and the step that answers it success:false leaves the pairing
\* codes and the notifications as they were.
C11_RefusedLinkChangesNothing ==
    /\ [](\A m \in Msgs : LinkRefused(m) =>
            ~msgs[m].invalidated /\ msgs[m].attempt = NoVal)
    /\ [][\A m \in Msgs :
            (msgs[m].type = "linkCode_steam" /\ msgs'[m] # msgs[m]) =>
                /\ players' = players
                /\ LinkRefused(m)' => (codes' = codes /\ dms' = dms)]_vars

\* C11 witness: with an identity in the registry and the codes still pending,
\* a link message whose merge reported failure has been answered.
C11_Witness ==
    /\ players # <<>>
    /\ codes = PendingCodes
    /\ \E m \in Msgs : msgs[m].merged /\ LinkRefused(m)

\* C12: the step that takes the two matched profiles takes the profile owning
\* the message's Steam identity as the first (retained) argument of the merge
\* and the profile owning the code's Discord identity as the second (donor),
\* whatever order the store returned them in.
C12_SteamProfileRetained ==
    [][\A m \in Msgs :
        (msgs[m].pc = "link_find" /\ msgs'[m].pc = "link_merge") =>
            /\ msgs'[m].result[1].id = accounts[msgs[m].steamId]
            /\ msgs'[m].result[2].id = accounts[msgs[m].discordId]]_vars

\* C13: every link message answered success:true has attempted to notify the
\* Discord identity its pairing code was pending for.
C13_SuccessNotifies ==
    \A x \in linked : msgs[x[1]].attempt = PendingCodes[x[2]]

\* The step in which the handler of an onJoin (onLeave) message m ends
\* without the store having faulted.
PresenceStep(m, type) ==
    /\ msgs[m].pc = "auth" /\ msgs[m].type = type
    /\ msgs'[m].pc = "done" /\ ~msgs'[m].faulted

\* The step answers m with the given success flag, when m asks for an answer.
AnswersWith(m, flag) ==
    Truthy(msgs[m].correlationId) =>
        \E e \in BagToSet(sent') :
            /\ sent' = sent (+) SetToBag({e})
            /\ e.of = m
            /\ "success" \in DOMAIN e.body /\ e.body.success = flag

\* C14: the step that handles a presence join for identity s puts the
\* store's profile of s in the registry under s and leaves every other entry
\* as it was, when the store has a profile for s; otherwise it answers
\* success:false and leaves the registry as it was.  (A join whose store
\* lookup faulted has found out neither.)
C14_JoinRegisters ==
    [][\A m \in Msgs : PresenceStep(m, "onJoin") =>
        LET s == msgs[m].steamId IN
        IF s \in DOMAIN accounts
        THEN /\ getPlayerBySteamID(players', s) = <<UserRow(accounts[s])>>
             /\ \A k \in SteamIds \ {s} :
                    getPlayerBySteamID(players', k) = getPlayerBySteamID(players, k)
             /\ Len(players') = Cardinality({players'[i].key : i \in DOMAIN players'})
        ELSE /\ AnswersWith(m, FALSE)
             /\ players' = players]_vars

\* C14 witness: one identity has joined and is in the registry, and the join
\* of an identity without a profile has been refused.
C14_Witness ==
    /\ Len(players) = 1
    /\ \E e \in BagToSet(sent) :
            /\ e.body.type = "onJoin_response"
            /\ "success" \in DOMAIN e.body
            /\ e.body.content = "No user profile found!"

\* C15: the step that handles a presence leave for identity s removes the
\* entry of s, leaves every other entry as it was and answers success:true,
\* when the store has a profile for s; otherwise it answers success:false.
\* (A leave whose store lookup faulted has found out neither.)
C15_LeaveUnregisters ==
    [][\A m \in Msgs : PresenceStep(m, "onLeave") =>
        LET s == msgs[m].steamId IN
        IF s \in DOMAIN accounts
        THEN /\ getPlayerBySteamID(players', s) = <<>>
             /\ \A k \in SteamIds \ {s} :
                    getPlayerBySteamID(players', k) = getPlayerBySteamID(players, k)
             /\ AnswersWith(m, TRUE)
        ELSE AnswersWith(m, FALSE)]_vars

\* C15 witness: an identity joined, then left: its join and its leave have
\* been answered and the registry is empty again.
C15_Witness ==
    /\ players = <<>>
    /\ \E e \in BagToSet(sent) :
            e.body.type = "onJoin_response" /\ "success" \notin DOMAIN e.body
    /\ \E e \in BagToSet(sent) :
            /\ e.body.type = "onLeave_response"
            /\ e.body.content = "Player successfully removed from the list."

\* C16: every identity owns one profile that the store holds; a
\* fetch-or-create message that the store did not fail is answered
\* success:true with the identity's profile; the step that creates a profile
\* creates it with experience 0 and level 1 for an identity that had none,
\* and no other step of such a message changes the store.
C16_FetchOrCreate ==
    /\ [](\A p \in DOMAIN accounts : accounts[p] \in DOMAIN users)
    /\ [](\A m \in Msgs : \A e \in ResponsesOf(m) :
            (e.body.type = "getUser_steam_response"
                /\ (msgs[m].faulted => msgs[m].conflict)) =>
                    "success" \in DOMAIN e.body /\ e.body.success = TRUE)
    /\ [][\A m \in Msgs :
            (msgs[m].type = "getUser_steam" /\ msgs'[m] # msgs[m]) =>
                \/ UNCHANGED <<users, accounts, nextId>>
                \/ /\ msgs[m].steamId \notin DOMAIN accounts
                   /\ \E id \in DOMAIN users' \ DOMAIN users :
                        /\ users'[id].xp = 0 /\ users'[id].level = 1
                        /\ accounts' = (msgs[m].steamId :> id) @@ accounts
                        /\ \A i \in DOMAIN users : users'[i] = users[i]]_vars

\* The step is a call of the registry operation `op` by the caller.
Calls(op) == caller' # caller /\ caller'.op = op

\* Every key other than k has the entry it had.
OthersKept(k) ==
    \A k2 \in RegKeys \ {k} :
        getPlayerBySteamID(players', k2) = getPlayerBySteamID(players, k2)

\* C17: the registry holds at most one entry per key; a put of v under k
\* makes get(k) return v, a remove of k makes it absent, either leaves get
\* of every other key as it was, and the reading operations change no entry:
\* get(k) is the latest value put under k and not removed since.
C17_PutOverwrites ==
    /\ [](Len(players) = Cardinality({players[i].key : i \in DOMAIN players}))
    /\ [][/\ Calls("put") =>
               (/\ getPlayerBySteamID(players', caller'.arg) = caller'.got
                /\ OthersKept(caller'.arg))
          /\ Calls("remove") =>
               (/\ getPlayerBySteamID(players', caller'.arg) = <<>>
                /\ OthersKept(caller'.arg))
          /\ (Calls("get") \/ Calls("all") \/ Calls("getByName") \/ Calls("snapshot")) =>
               players' = players
          /\ Calls("get") =>
               (\/ /\ caller'.got = <<>>
                   /\ \A i \in DOMAIN players : players[i].key # caller'.arg
                \/ \E i \in DOMAIN players :
                       players[i].key = caller'.arg /\ caller'.got = <<players[i].val>>)]_vars

\* C17 witness: with two identities in the registry, the entry of the first
\* has just been overwritten by a put.
C17_Witness ==
    /\ Len(players) = 2
    /\ caller.op = "put"
    /\ caller.arg = players[1].key
    /\ caller.got = <<players[1].val>>
    /\ players[1].val # players[2].val

\* C18: a remove of k returns true exactly when the registry had an entry
\* for k; afterwards k is absent and every other entry is as it was.
C18_RemoveReportsExistence ==
    [][Calls("remove") =>
        (/\ caller'.ret = (IF \E i \in DOMAIN players : players[i].key = caller'.arg
                            THEN "true" ELSE "false")
         /\ getPlayerBySteamID(players', caller'.arg) = <<>>
         /\ OthersKept(caller'.arg))]_vars

\* The entries of pl whose display name equals n ignoring case.
NameMatches(pl, n) == {i \in DOMAIN pl : ToLower(pl[i].val.username) = ToLower(n)}

\* C19: a lookup by display name returns the profile of the first entry, in
\* scan order, whose name equals the argument ignoring case, absent when
\* there is none; a removal by display name removes that entry and no other
\* and returns true exactly when there was one.
C19_FirstNameMatch ==
    [][LET hits == NameMatches(players, caller'.arg) IN
       /\ Calls("getByName") =>
            (IF hits = {} THEN caller'.got = <<>>
             ELSE \E i \in hits :
                    /\ \A j \in hits : i <= j
                    /\ caller'.got = <<players[i].val>>)
       /\ Calls("removeByName") =>
           (/\ caller'.ret = (IF hits = {} THEN "false" ELSE "true")
            /\ IF hits = {} THEN players' = players
               ELSE \E i \in hits :
                    /\ \A j \in hits : i <= j
                    /\ players' = [x \in 1..(Len(players) - 1) |->
                                        IF x < i THEN players[x] ELSE players[x + 1]])]_vars

\* C20: a caller adding, overwriting or deleting a key of the Map that
\* getPlayerList gave it changes no entry of the registry, so that get, all
\* and a later snapshot return what they returned before.
C20_SnapshotIsACopy ==
    [][Calls("mutate") =>
        (/\ players' = players
         /\ getAllPlayers(players') = getAllPlayers(players)
         /\ \A k \in RegKeys :
                getPlayerBySteamID(players', k) = getPlayerBySteamID(players, k))]_vars

\* The roles of the member that boost: configured with a factor above 1.
Boosting(m) ==
    IF m.present
    THEN {m.roles[i] : i \in {j \in DOMAIN m.roles :
                                    /\ m.roles[j] \in DOMAIN roleMultipliers
                                    /\ roleMultipliers[m.roles[j]] > 100}}
    ELSE {}

\* C21: the step that resolves the multiplier returns the highest factor
\* among the member's boosting roles (1.0 when there is none, or no member),
\* and lists exactly the boosting roles, each once with its factor, in
\* descending order of factor.
C21_HighestBoost ==
    [][info' # info =>
        LET B == Boosting(member) IN
        /\ \A id \in B : info'.multiplier >= roleMultipliers[id]
        /\ \/ B = {} /\ info'.multiplier = 100
           \/ \E id \in B : info'.multiplier = roleMultipliers[id]
        /\ Len(info'.roles) = Cardinality(B)
        /\ {info'.roles[i] : i \in DOMAIN info'.roles}
                = {[name |-> RoleName(id), multiplier |-> roleMultipliers[id]] : id \in B}
        /\ \A i, j \in DOMAIN info'.roles :
                i < j => info'.roles[i].multiplier >= info'.roles[j].multiplier]_vars

\* C21 witness: a member holding two roles with different boosts and a role
\* without boost has been resolved: the higher boost first.
C21_Witness ==
    /\ Len(member.roles) = 3
    /\ Len(info.roles) = 2
    /\ info.roles[1].multiplier > info.roles[2].multiplier
    /\ info.multiplier = 125
    /\ member.roles[1] = "R1"

\* The join of message m was carried out: it was answered without a success
\* key, as only a join that registered a profile is.
JoinCarriedOut(m) ==
    /\ msgs[m].pc = "done"
    /\ \E e \in BagToSet(sent) :
            e.of = m /\ e.body.type = "onJoin_response" /\ "success" \notin DOMAIN e.body

\* The leave of message m was carried out: it was answered success:true.
LeaveCarriedOut(m) ==
    /\ msgs[m].pc = "done"
    /\ \E e \in BagToSet(sent) :
            /\ e.of = m /\ e.body.type = "onLeave_response"
            /\ "success" \in DOMAIN e.body /\ e.body.success

\* C22: when a presence join for identity s was received, a presence leave
\* for s was received after it and is the last message received, and both
\* handlers have completed, the registry has no entry for s.  (s is the only
\* Steam identity that owns a profile, so a join and a leave that were
\* carried out are those of s; messages are received in the order of their
\* numbers.)
C22_LeaveAfterJoinWins ==
    \A s \in SteamIds : \A m1, m2 \in Msgs :
        (/\ DOMAIN accounts \cap SteamIds = {s}
         /\ m1 < m2
         /\ JoinCarriedOut(m1)
         /\ LeaveCarriedOut(m2)
         /\ \A k \in Msgs : k > m2 => msgs[k].pc = "idle"
         /\ \A k \in Msgs : k < m2 => msgs[k].pc \in Final)
            => getPlayerBySteamID(players, s) = <<>>

\* The invocations that incremented the balance.
Granted == {r \in Runs : runs[r].updated}

\* C23: any two daily invocations that incremented the balance took their
\* claim times at least 24 hours apart, and an invocation that replied that
\* the next reward is not due yet has changed nothing.
C23_OncePerDay ==
    /\ \A r1, r2 \in Granted :
            r1 # r2 => \/ runs[r1].now - runs[r2].now >= DayLength
                       \/ runs[r2].now - runs[r1].now >= DayLength
    /\ \A r \in Runs :
            (runs[r].replies # <<>> /\ runs[r].replies[1] = "You can claim your next daily reward in")
                => ~runs[r].updated

\* C24: an invocation that replied with the error about gaining daily XP has
\* not changed balance, streak or last-claim time.
C24_XpErrorChangesNothing ==
    \A r \in Runs :
        (runs[r].replies = <<"An error occurred while gaining your daily XP">>)
            => ~runs[r].updated

\* C25: the step in which a daily claim is granted adds 5 to the balance,
\* sets the last-claim time to the claim time, and sets the streak to 1 when
\* the profile had no claim or its last claim lies on a calendar day more than
\* one day before the day of the claim, and to the stored streak plus 1
\* otherwise; the streak is reported as broken only in the second case.
C25_StreakRule ==
    [][\A r \in Runs : (runs[r].pc = "update" /\ runs'[r].pc = "xp") =>
        LET old == profiles[runs[r].id]
            new == profiles'[runs[r].id]
            never == old.lastClaimedDaily = NoTime
            missed == ~never /\ Midnight(runs[r].now) - Midnight(old.lastClaimedDaily) > DayLength
        IN  /\ new.balance = old.balance + 5
            /\ new.lastClaimedDaily = runs[r].now
            /\ new.streak = IF never \/ missed THEN 1 ELSE old.streak + 1
            /\ (runs[r].streakBroken = "true") <=> missed]_vars

\* C26: the page counter of the profile view is always one of the pages,
\* and a click by a user other than the invoker does not change it.
C26_PageInRange ==
    /\ [](currentPage \in 1..2)
    /\ [][\A c \in Clicks :
            (collected[c].pc = "idle" /\ collected'[c].by = "other")
                => currentPage' = currentPage]_vars

====
